---- MODULE Spec2Model ----
(***************************************************************************)
(* Model of the transaction execution engine of the PumpFun token creator: *)
(* TransactionExecutor (strategy selection, single-channel dispatch, the   *)
(* hybrid race over promiseAny, the direct fallback loop), the three       *)
(* channel adapters (Jito, BloxRoute, Nozomi) as far as they touch the     *)
(* payload and produce outcomes, and the ConfigManager values the engine   *)
(* reads.                                                                  *)
(*                                                                         *)
(* JavaScript objects are records whose DOMAIN is the set of keys that are *)
(* present; `{...a, k: v}` is Spread.  Amounts are kept in lamports        *)
(* (SOL * 10^9) so that they stay integers.  Time is a logical clock in    *)
(* milliseconds: every network round trip takes one tick, a backoff timer  *)
(* takes the number of milliseconds it was armed with.                     *)
(***************************************************************************)
EXTENDS Integers, Sequences, FiniteSets, TLC

\* largest MAX_RETRY_ATTEMPTS value the environment is given
MaxCfgRetries == 3
MaxCalls == 2
MaxHealthChecks == 2
MaxCompleted == 2
MaxMonitorClock == 3
MaxSessions == 2

\* src/utils/types.ts
MAX_RETRY_ATTEMPTS == 3
DEFAULT_TIMEOUT == 30000
DEFAULT_JITO_TIP == 100000
DEFAULT_NOZOMI_TIP == 100000
DEFAULT_BLOXROUTE_FEE == 1000000

Channels == {"jito", "bloxroute", "nozomi"}

VARIABLES
  env,         \* process.env as read by ConfigManager (fixed after construction)
  tx,          \* the Transaction object the caller passes to executeTransaction
  txAtCall,    \* value of that object when executeTransaction was entered
  pc,          \* position of executeTransaction: idle, single, race, fallback, done
  strategy,    \* const strategy of executeTransaction
  startTime,   \* const startTime of executeTransaction
  now,         \* Date.now()
  call,        \* the promise executeTransaction returned
  attempt,     \* per channel: the adapter's executeTransaction invocation
  clones,      \* per channel: the private Transaction object made for the attempt
  race,        \* promiseAny: the outer promise and rejectedCount
  settleOrder, \* channels in the order their attempts settled
  fb,          \* executeFallback: phase, retries, maxRetries, its tx clone
  fbResult,    \* the value executeFallback returned
  fbAttempts,  \* loop iterations of executeFallback started so far
  delays,      \* backoff timers that elapsed: attempt they preceded, milliseconds
  calls,       \* executeTransaction calls made on this engine so far
  lastStrategy, \* the strategy the previous call selected ("none" before it)
  confirmation, \* what the last confirmTransaction of the fallback reported
  health,      \* TransactionExecutor.healthCheck: the call in progress, the last result
  estimate,    \* TransactionExecutor.estimateExecutionCost: the promise it returned
  monitor,     \* PerformanceMonitor: operations, completedOperations, last return
  bundle,      \* JitoExecutor.executeTransaction: its endpoint requests and outcome
  session      \* PumpFunTokenCreator.createToken: the call in progress, calls made

vars == <<env, tx, txAtCall, pc, strategy, startTime, now, call, attempt,
          clones, race, settleOrder, fb, fbResult, fbAttempts, delays, calls,
          lastStrategy, confirmation, health, estimate, monitor, bundle,
          session>>

\* the state of the engine's other services, which a transaction never touches
service == <<health, estimate, monitor, bundle, session>>

-----------------------------------------------------------------------------
(* JavaScript helpers *)

\* {...a, ...b}
Spread(a, b) ==
  [k \in (DOMAIN a) \cup (DOMAIN b) |-> IF k \in DOMAIN b THEN b[k] ELSE a[k]]

Has(r, k) == k \in DOMAIN r

\* parseInt on the strings the environment can hold; anything else is NaN
ParseRange == ((0 - 1) .. (MaxCfgRetries + 1)) \cup {2000, DEFAULT_TIMEOUT}

parseInt(s) ==
  IF \E n \in ParseRange : ToString(n) = s
    THEN [nan |-> FALSE, val |-> CHOOSE n \in ParseRange : ToString(n) = s]
    ELSE [nan |-> TRUE, val |-> 0]

\* parseFloat of an amount in SOL, result in lamports
parseFloat(s) ==
  CASE s = "0"      -> 0
    [] s = "0.0001" -> 100000
    [] s = "0.0002" -> 200000
    [] s = "0.001"  -> 1000000
    [] OTHER        -> 0

\* String(x) of an amount constant, x in lamports
AmountString(x) ==
  CASE x = 100000  -> "0.0001"
    [] x = 1000000 -> "0.001"
    [] OTHER       -> "0"

\* a || b on strings
OrElse(s, d) == IF s = "" THEN d ELSE s

-----------------------------------------------------------------------------
(* ConfigManager *)

EnvFlags == {"true", ""}
EnvAmounts == {"", "0"}
EnvSecrets == {"", "secret"}
EnvRetries == {"", "junk"} \cup {ToString(n) : n \in (0 - 1) .. MaxCfgRetries}
\* TRANSACTION_TIMEOUT: one configured value; no step of the executor reads it
EnvTimeouts == {"2000"}

Environments ==
  [USE_JITO : EnvFlags, USE_BLOXROUTE : EnvFlags, USE_NOZOMI : EnvFlags,
   JITO_TIP_AMOUNT : EnvAmounts, BLOXROUTE_FEE : EnvAmounts,
   NOZOMI_TIP_AMOUNT : EnvAmounts,
   BLOXROUTE_AUTH_HEADER : EnvSecrets, NOZOMI_API_KEY : EnvSecrets,
   MAX_RETRY_ATTEMPTS : EnvRetries, TRANSACTION_TIMEOUT : EnvTimeouts]

initializeExecutorConfig ==
  [useJito         |-> env.USE_JITO = "true",
   useBloxRoute    |-> env.USE_BLOXROUTE = "true",
   useNozomi       |-> env.USE_NOZOMI = "true",
   jitoTipAmount   |-> parseFloat(OrElse(env.JITO_TIP_AMOUNT, AmountString(DEFAULT_JITO_TIP))),
   bloxRouteFee    |-> parseFloat(OrElse(env.BLOXROUTE_FEE, AmountString(DEFAULT_BLOXROUTE_FEE))),
   nozomiTipAmount |-> parseFloat(OrElse(env.NOZOMI_TIP_AMOUNT, AmountString(DEFAULT_NOZOMI_TIP))),
   maxRetries      |-> parseInt(OrElse(env.MAX_RETRY_ATTEMPTS, ToString(MAX_RETRY_ATTEMPTS))),
   timeout         |-> parseInt(OrElse(env.TRANSACTION_TIMEOUT, ToString(DEFAULT_TIMEOUT)))]

executorConfig == initializeExecutorConfig

initializeJitoConfig == [tipAmount |-> executorConfig.jitoTipAmount]

initializeBloxRouteConfig ==
  [authHeader |-> env.BLOXROUTE_AUTH_HEADER, fee |-> executorConfig.bloxRouteFee]

initializeNozomiConfig ==
  [apiKey |-> env.NOZOMI_API_KEY, tipAmount |-> executorConfig.nozomiTipAmount]

isJitoEnabled == executorConfig.useJito /\ initializeJitoConfig.tipAmount > 0

isBloxRouteEnabled ==
  /\ executorConfig.useBloxRoute
  /\ initializeBloxRouteConfig.authHeader # ""
  /\ initializeBloxRouteConfig.fee > 0

isNozomiEnabled ==
  /\ executorConfig.useNozomi
  /\ initializeNozomiConfig.apiKey # ""
  /\ initializeNozomiConfig.tipAmount > 0

getEnabledProviders ==
  (IF isJitoEnabled THEN <<"Jito">> ELSE << >>) \o
  (IF isBloxRouteEnabled THEN <<"BloxRoute">> ELSE << >>) \o
  (IF isNozomiEnabled THEN <<"Nozomi">> ELSE << >>)

isEnabled(c) ==
  CASE c = "jito"      -> isJitoEnabled
    [] c = "bloxroute" -> isBloxRouteEnabled
    [] c = "nozomi"    -> isNozomiEnabled

-----------------------------------------------------------------------------
(* TransactionExecutor: strategy selection and the result of the call *)


\* determineOptimalStrategy with the hybrid threshold off by one
determineOptimalStrategyEager ==
  IF Len(getEnabledProviders) >= 1 THEN "hybrid"
  ELSE IF isJitoEnabled THEN "jito"
  ELSE IF isBloxRouteEnabled THEN "bloxroute"
  ELSE IF isNozomiEnabled THEN "nozomi"
  ELSE "fallback"

\* a selection that remembers that the engine has been used before
determineOptimalStrategyOnce ==
  IF calls >= 1 THEN "fallback"
  ELSE IF Len(getEnabledProviders) > 1 THEN "hybrid"
  ELSE IF isJitoEnabled THEN "jito"
  ELSE IF isBloxRouteEnabled THEN "bloxroute"
  ELSE IF isNozomiEnabled THEN "nozomi"
  ELSE "fallback"

\* a selection that goes by the USE_* switches alone
determineOptimalStrategyBySwitch ==
  LET switched == (IF executorConfig.useJito THEN <<"Jito">> ELSE << >>) \o
                  (IF executorConfig.useBloxRoute THEN <<"BloxRoute">> ELSE << >>) \o
                  (IF executorConfig.useNozomi THEN <<"Nozomi">> ELSE << >>)
  IN  IF Len(switched) > 1 THEN "hybrid"
      ELSE IF executorConfig.useJito THEN "jito"
      ELSE IF executorConfig.useBloxRoute THEN "bloxroute"
      ELSE IF executorConfig.useNozomi THEN "nozomi"
      ELSE "fallback"

\* determineOptimalStrategy that ends on a channel instead of the fallback
determineOptimalStrategyDefaultJito ==
  IF Len(getEnabledProviders) > 1 THEN "hybrid"
  ELSE IF isJitoEnabled THEN "jito"
  ELSE IF isBloxRouteEnabled THEN "bloxroute"
  ELSE IF isNozomiEnabled THEN "nozomi"
  ELSE "jito"

\* determineOptimalStrategy(): hybrid for several providers, else the one
\* enabled provider, else the fallback
determineOptimalStrategy ==
  IF Len(getEnabledProviders) > 1 THEN "hybrid"
  ELSE IF isJitoEnabled THEN "jito"
  ELSE IF isBloxRouteEnabled THEN "bloxroute"
  ELSE IF isNozomiEnabled THEN "nozomi"
  ELSE "fallback"

\* a success return that passes the path's result on and adds only the time
SuccessReturnNoStrategy(result, strat, executionTime) ==
  [state |-> "fulfilled",
   value |-> Spread(result, [executionTime |-> executionTime])]

\* return { ...result, strategy, executionTime }
SuccessReturn(result, strat, executionTime) ==
  [state |-> "fulfilled",
   value |-> Spread(result, [strategy |-> strat, executionTime |-> executionTime])]


\* ThrownMessage that drops the adapter's error
ThrownMessageGeneric(result) == "Transaction execution failed"

\* message of: new ExecutorError(result.error || 'Transaction execution failed', ...)
ThrownMessage(result) ==
  IF Has(result, "error") /\ result.error # ""
    THEN result.error
    ELSE "Transaction execution failed"


\* a catch block that rethrows
CatchRethrow(message, strat, executionTime) ==
  [state |-> "rejected", reason |-> message]

\* the catch block of executeTransaction
CatchReturn(message, strat, executionTime) ==
  [state |-> "fulfilled",
   value |-> [success |-> FALSE, error |-> message, strategy |-> strat,
              executionTime |-> executionTime]]

\* a body that returns the path's result, failed or not, with strategy and time
CompleteSpreadsFailure(result, strat, executionTime) ==
  [state |-> "fulfilled",
   value |-> Spread(result, [strategy |-> strat, executionTime |-> executionTime])]

\* the body of executeTransaction after `await executeWithStrategy(...)`
Complete(result, strat, executionTime) ==
  IF result.success
    THEN SuccessReturn(result, strat, executionTime)
    ELSE CatchReturn(ThrownMessage(result), strat, executionTime)

Pending == [state |-> "pending"]

-----------------------------------------------------------------------------
(* Transaction objects *)

Payloads ==
  [instructions : {<<"createMint">>}, recentBlockhash : {0},
   feePayer : {"unset"}, signed : {FALSE}, serializable : BOOLEAN]

\* Transaction.from(transaction.serialize({ requireAllSignatures: false }));
\* serialize throws on a transaction it cannot compile
CanClone(t) == t.serializable

cloneTransaction(t) ==
  [instructions    |-> t.instructions,
   recentBlockhash |-> t.recentBlockhash,
   feePayer        |-> t.feePayer,
   signed          |-> t.signed,
   serializable    |-> t.serializable]

-----------------------------------------------------------------------------
(* Channel adapters: what they do to the Transaction they are handed and   *)
(* the outcome they return.  Every adapter body is one try/catch whose     *)
(* catch returns { success: false, ... }: an adapter promise is always     *)
(* fulfilled, never rejected.                                              *)

\* JitoExecutor.executeTransaction: prepares the object it was handed
JitoPrepare(t, blockhash) ==
  [t EXCEPT !.recentBlockhash = blockhash, !.feePayer = "wallet", !.signed = TRUE]

\* BloxRouteExecutor.executeTransaction: prepares and tips the object it was handed
BloxRoutePrepare(t, blockhash) ==
  [t EXCEPT !.recentBlockhash = blockhash,
            !.feePayer = "wallet",
            !.instructions = IF initializeBloxRouteConfig.fee > 0
                               THEN Append(@, "bloxrouteTip") ELSE @,
            !.signed = TRUE]

\* NozomiExecutor.executeTransaction: its own clone, tipped before the first await
NozomiClone(t) ==
  LET nozomiTx == cloneTransaction(t)
  IN  [nozomiTx EXCEPT !.instructions = IF executorConfig.nozomiTipAmount > 0
                                          THEN Append(@, "nozomiTip") ELSE @]

NozomiPrepare(t, blockhash) ==
  [t EXCEPT !.recentBlockhash = blockhash, !.feePayer = "wallet", !.signed = TRUE]

AdapterPrepare(c, t, blockhash) ==
  CASE c = "jito"      -> JitoPrepare(t, blockhash)
    [] c = "bloxroute" -> BloxRoutePrepare(t, blockhash)
    [] c = "nozomi"    -> NozomiPrepare(t, blockhash)

\* the signature a path reports: the path that signed and the blockhash it signed over
Signature(path, blockhash) == [path |-> path, blockhash |-> blockhash]

AdapterSuccess(c, blockhash, executionTime) ==
  [success |-> TRUE, signature |-> Signature(c, blockhash),
   executionTime |-> executionTime, provider |-> c]

AdapterFailure(c, error, executionTime) ==
  [success |-> FALSE, error |-> error, executionTime |-> executionTime, provider |-> c]

\* the message each adapter's catch block builds
CaughtError(c) ==
  CASE c = "jito"      -> "Jito execution failed: fault"
    [] c = "bloxroute" -> "BloxRoute execution failed: fault"
    [] c = "nozomi"    -> "Nozomi execution failed: fault"

\* an async adapter body returns a value: its promise is fulfilled with it
AdapterReturn(outcome) == [state |-> "fulfilled", value |-> outcome]

\* an adapter body whose catch block lets the fault escape
AdapterCatchRethrow(c, executionTime) ==
  [state |-> "rejected", reason |-> CaughtError(c)]

\* the catch block that closes every adapter body returns a failure outcome
AdapterCatch(c, executionTime) ==
  AdapterReturn(AdapterFailure(c, CaughtError(c), executionTime))

\* the message of a submission the channel did not accept
RefusedError(c) ==
  CASE c = "jito"      -> "All Jito endpoints failed. Errors: fault"
    [] c = "bloxroute" -> "BloxRoute execution failed: fault"
    [] c = "nozomi"    -> "Nozomi submission failed: fault"

ConfirmError == "Transaction failed: err"

\* how the submission call of each adapter can end
SendOutcomes(c) ==
  CASE c = "jito"      -> {"ok", "refused"}
    [] c = "bloxroute" -> {"ok", "throw"}
    [] c = "nozomi"    -> {"ok", "refused", "throw"}

-----------------------------------------------------------------------------
(* promiseAny *)

NoRace == [state |-> "none"]

\* new Promise(...) over n input promises: an empty list rejects at once
promiseAnyStart(n) ==
  IF n = 0
    THEN [state |-> "rejected", n |-> 0, rejectedCount |-> 0,
          reason |-> "No promises provided"]
    ELSE [state |-> "pending", n |-> n, rejectedCount |-> 0]

\* a resolve that takes the value of every promise that fulfils
promiseAnyResolveLast(r, value) ==
  [state |-> "fulfilled", n |-> r.n, rejectedCount |-> r.rejectedCount,
   value |-> value]

\* a race that takes a fulfilment with success = false for a rejection
promiseAnyResolveOnSuccess(r, value) ==
  IF r.state # "pending"
    THEN r
  ELSE IF value.success
    THEN [state |-> "fulfilled", n |-> r.n, rejectedCount |-> r.rejectedCount,
          value |-> value]
  ELSE IF r.rejectedCount + 1 = r.n
    THEN [state |-> "rejected", n |-> r.n, rejectedCount |-> r.rejectedCount + 1,
          reason |-> "All promises rejected"]
  ELSE [r EXCEPT !.rejectedCount = r.rejectedCount + 1]

\* a race that waits for a success: a fulfilment with success = false is
\* neither taken as the result nor counted as a rejection
promiseAnyResolveSkipsFailure(r, value) ==
  IF r.state = "pending" /\ value.success
    THEN [state |-> "fulfilled", n |-> r.n, rejectedCount |-> r.rejectedCount,
          value |-> value]
    ELSE r

\* promise.then(resolve): resolving a settled promise has no effect
promiseAnyResolve(r, value) ==
  IF r.state = "pending"
    THEN [state |-> "fulfilled", n |-> r.n, rejectedCount |-> r.rejectedCount,
          value |-> value]
    ELSE r

\* a polyfill that rejects as soon as one input rejects
promiseAnyRejectFirst(r) ==
  LET rejectedCount == r.rejectedCount + 1
  IN  IF r.state = "pending"
        THEN [state |-> "rejected", n |-> r.n, rejectedCount |-> rejectedCount,
              reason |-> "All promises rejected"]
        ELSE [r EXCEPT !.rejectedCount = rejectedCount]

\* .catch(error => { errors[index] = error; rejectedCount++; ... reject(...) })
promiseAnyReject(r) ==
  LET rejectedCount == r.rejectedCount + 1
  IN  IF r.state = "pending" /\ rejectedCount = r.n
        THEN [state |-> "rejected", n |-> r.n, rejectedCount |-> rejectedCount,
              reason |-> "All promises rejected"]
        ELSE [r EXCEPT !.rejectedCount = rejectedCount]

\* a tag that names the strategy instead of the channel
TagProviderHybrid(result, c) == Spread(result, [provider |-> "hybrid"])

\* .then(result => ({ ...result, provider: c })) in executeHybrid
TagProvider(result, c) == Spread(result, [provider |-> c])

-----------------------------------------------------------------------------
(* Initial state *)

Idle == [phase |-> "idle"]
NoFallback == [phase |-> "none"]
NoResult == [none |-> TRUE]

\* no healthCheck has been made
NoHealth == [state |-> "idle", calls |-> 0]

\* estimateExecutionCost has not been called
NoEstimate == [state |-> "none"]

\* JitoExecutor.executeTransaction has not been called
NoBundle == [phase |-> "idle"]

\* createToken has not been called
NoSession == [phase |-> "idle", calls |-> 0]

\* new PerformanceMonitor(): operations = new Map(), completedOperations = []
NewMonitor ==
  [operations |-> [op \in {} |-> 0], completedOperations |-> << >>,
   returned |-> [none |-> TRUE]]

\* the engine and the monitor as constructed, before any call
Constructed ==
  /\ tx \in Payloads
  /\ txAtCall = tx
  /\ pc = "idle"
  /\ strategy = "auto"
  /\ startTime = 0
  /\ now = 0
  /\ call = Pending
  /\ attempt = [c \in Channels |-> Idle]
  /\ clones = [c \in Channels |-> << >>]
  /\ race = NoRace
  /\ settleOrder = << >>
  /\ fb = NoFallback
  /\ fbResult = NoResult
  /\ fbAttempts = 0
  /\ delays = << >>
  /\ calls = 0
  /\ lastStrategy = "none"
  /\ confirmation = "none"
  /\ health = NoHealth
  /\ estimate = NoEstimate
  /\ monitor = NewMonitor
  /\ bundle = NoBundle
  /\ session = NoSession

Init == env \in Environments /\ Constructed

-----------------------------------------------------------------------------
(* executeFallback *)

\* a default that replaces only a missing value (NaN), not 0
FallbackMaxRetriesKeepsZero ==
  LET configured == executorConfig.maxRetries
  IN  IF configured.nan THEN MAX_RETRY_ATTEMPTS ELSE configured.val

\* this.config.executorConfig.maxRetries || MAX_RETRY_ATTEMPTS
FallbackMaxRetries ==
  LET configured == executorConfig.maxRetries
  IN  IF configured.nan \/ configured.val = 0
        THEN MAX_RETRY_ATTEMPTS
        ELSE configured.val


\* FallbackSuccess that counts the successful attempt as a retry
FallbackSuccessCountsAttempt(signature, retries) ==
  [success |-> TRUE, signature |-> signature, provider |-> "fallback",
   retryCount |-> retries + 1]

\* return { success: true, signature, provider: 'fallback', retryCount: retries }
FallbackSuccess(signature, retries) ==
  [success |-> TRUE, signature |-> signature, provider |-> "fallback",
   retryCount |-> retries]

\* the return inside the catch block once retries >= maxRetries
FallbackFailure(errorMessage, retries) ==
  [success |-> FALSE, error |-> errorMessage, provider |-> "fallback",
   retryCount |-> retries]

FallbackCaughtError == "Fallback execution failed: fault"


\* a constant backoff
BackoffDelayFlat(retries) == 1000

\* a backoff armed with the number of the attempt to come
BackoffDelayNext(retries) == 1000 * (retries + 1)

\* a backoff of two seconds per failed attempt
BackoffDelayDoubled(retries) == 2000 * retries

\* await this.delay(1000 * retries)
BackoffDelay(retries) == 1000 * retries

\* the return after the while loop
FallbackExhausted(retries) ==
  [success |-> FALSE, error |-> "Maximum retry attempts reached",
   provider |-> "fallback", retryCount |-> retries]

\* executeFallback returns: the awaiting executeTransaction completes
FallbackReturn(result, strat, start) ==
  /\ fbResult' = result
  /\ call' = Complete(result, strat, now' - start)
  /\ pc' = "done"

\* a loop whose retries send again with the blockhash fetched earlier
FallbackLoopKeepsAnchor(retries, maxRetries, strat, start) ==
  IF retries < maxRetries
    THEN /\ fb' = [phase |-> IF retries = 0 THEN "fetch" ELSE "send",
                   retries |-> retries, maxRetries |-> maxRetries,
                   blockhash |-> IF retries = 0 THEN 0 ELSE fb.blockhash,
                   delay |-> 0]
         /\ fbAttempts' = fbAttempts + 1
         /\ pc' = "fallback"
         /\ UNCHANGED <<fbResult, call>>
    ELSE /\ fb' = [phase |-> "done", retries |-> retries, maxRetries |-> maxRetries,
                   blockhash |-> 0, delay |-> 0]
         /\ UNCHANGED fbAttempts
         /\ FallbackReturn(FallbackExhausted(retries), strat, start)

\* while (retries < maxRetries): enter the loop body or fall out of the loop
FallbackLoop(retries, maxRetries, strat, start) ==
  IF retries < maxRetries
    THEN /\ fb' = [phase |-> "fetch", retries |-> retries, maxRetries |-> maxRetries,
                   blockhash |-> 0, delay |-> 0]
         /\ fbAttempts' = fbAttempts + 1
         /\ pc' = "fallback"
         /\ UNCHANGED <<fbResult, call>>
    ELSE /\ fb' = [phase |-> "done", retries |-> retries, maxRetries |-> maxRetries,
                   blockhash |-> 0, delay |-> 0]
         /\ UNCHANGED fbAttempts
         /\ FallbackReturn(FallbackExhausted(retries), strat, start)

\* a catch block that goes round the loop at once, with no backoff
FallbackCatchNoBackoff ==
  LET retries == fb.retries + 1
  IN  IF retries >= fb.maxRetries
        THEN /\ fb' = [fb EXCEPT !.phase = "done", !.retries = retries]
             /\ FallbackReturn(FallbackFailure(FallbackCaughtError, retries), strategy, startTime)
        ELSE /\ fb' = [fb EXCEPT !.phase = "fetch", !.retries = retries]
             /\ UNCHANGED <<fbResult, call, pc>>

\* a catch block that backs off after every failed attempt and leaves the
\* giving up to the loop condition
FallbackCatchAlwaysBackoff ==
  LET retries == fb.retries + 1
  IN  /\ fb' = [fb EXCEPT !.phase = "backoff", !.retries = retries,
                          !.delay = BackoffDelay(retries)]
      /\ UNCHANGED <<fbResult, call, pc>>

\* the catch block of the loop body
FallbackCatch ==
  LET retries == fb.retries + 1
  IN  IF retries >= fb.maxRetries
        THEN /\ fb' = [fb EXCEPT !.phase = "done", !.retries = retries]
             /\ FallbackReturn(FallbackFailure(FallbackCaughtError, retries), strategy, startTime)
        ELSE /\ fb' = [fb EXCEPT !.phase = "backoff", !.retries = retries,
                                 !.delay = BackoffDelay(retries)]
             /\ UNCHANGED <<fbResult, call, pc>>

\* getLatestBlockhash ends; on a blockhash the loop body clones the payload
\* (cloneTransaction may throw), signs the clone and sends it
FallbackFetch ==
  /\ pc = "fallback"
  /\ fb.phase = "fetch"
  /\ now' = now + 1
  /\ \E ok \in BOOLEAN :
       IF ok /\ CanClone(tx)
         THEN /\ fb' = [fb EXCEPT !.phase = "send", !.blockhash = now']
              /\ UNCHANGED <<fbResult, call, pc>>
         ELSE FallbackCatch
  /\ UNCHANGED <<env, service, confirmation, lastStrategy, calls, tx, txAtCall, strategy, startTime, attempt,
                 clones, race, settleOrder, fbAttempts, delays>>

\* sendRawTransaction ends
FallbackSend ==
  /\ pc = "fallback"
  /\ fb.phase = "send"
  /\ now' = now + 1
  /\ \E ok \in BOOLEAN :
       IF ok
         THEN /\ fb' = [fb EXCEPT !.phase = "confirm"]
              /\ UNCHANGED <<fbResult, call, pc>>
         ELSE FallbackCatch
  /\ UNCHANGED <<env, service, confirmation, lastStrategy, calls, tx, txAtCall, strategy, startTime, attempt,
                 clones, race, settleOrder, fbAttempts, delays>>

\* a check that lets a reported error pass
ConfirmationFailedOnThrow(r) == r = "throw"

\* confirmTransaction threw, or `if (confirmation.value.err) throw ...`
ConfirmationFailed(r) == r \in {"throw", "err"}

\* confirmTransaction ends
FallbackConfirm ==
  /\ pc = "fallback"
  /\ fb.phase = "confirm"
  /\ now' = now + 1
  /\ \E r \in {"ok", "err", "throw"} :
     /\ confirmation' = r
     /\ IF ~ConfirmationFailed(r)
         THEN /\ fb' = [fb EXCEPT !.phase = "done"]
              /\ FallbackReturn(FallbackSuccess(Signature("fallback", fb.blockhash),
                                                fb.retries),
                                strategy, startTime)
         ELSE FallbackCatch
  /\ UNCHANGED <<env, service, lastStrategy, calls, tx, txAtCall, strategy, startTime, attempt,
                 clones, race, settleOrder, fbAttempts, delays>>

\* the backoff timer fires and the loop goes round
FallbackBackoffElapsed ==
  /\ pc = "fallback"
  /\ fb.phase = "backoff"
  /\ now' = now + fb.delay
  /\ delays' = Append(delays, [before |-> fbAttempts + 1, ms |-> fb.delay])
  /\ FallbackLoop(fb.retries, fb.maxRetries, strategy, startTime)
  /\ UNCHANGED <<env, service, confirmation, lastStrategy, calls, tx, txAtCall, strategy, startTime, attempt,
                 clones, race, settleOrder>>

-----------------------------------------------------------------------------
(* An adapter attempt settles: its promise is settled and the reaction     *)
(* registered on it runs (the awaiting executeTransaction under a single-  *)
(* channel strategy, promiseAny's resolve under hybrid).                   *)

\* the record of an attempt whose promise has settled
DoneAttempt(target, s) ==
  [phase |-> "done", target |-> target, promise |-> s.state,
   outcome |-> IF s.state = "fulfilled" THEN s.value ELSE [reason |-> s.reason]]

\* `await adapter.executeTransaction(...)` in executeWithStrategy, then the
\* rest of executeTransaction: a value goes through the success test, a
\* rejection goes to the catch block
SingleAwait(s, strat, executionTime) ==
  IF s.state = "fulfilled"
    THEN Complete(s.value, strat, executionTime)
    ELSE CatchReturn(s.reason, strat, executionTime)

\* a hybrid path that returns only once every attempt it started has settled
SettleAwaitsAll(c, s) ==
  /\ attempt' = [attempt EXCEPT ![c] = DoneAttempt(@.target, s)]
  /\ settleOrder' = Append(settleOrder, c)
  /\ IF race.state = "none"
       THEN /\ race' = race
            /\ call' = SingleAwait(s, strategy, now' - startTime)
            /\ pc' = "done"
            /\ UNCHANGED <<fb, fbResult, fbAttempts>>
       ELSE /\ race' = IF s.state = "fulfilled"
                         THEN promiseAnyResolve(race, TagProvider(s.value, c))
                         ELSE promiseAnyReject(race)
            /\ IF /\ pc = "race"
                  /\ race'.state = "fulfilled"
                  /\ \A d \in Channels : attempt'[d].phase \in {"idle", "done"}
                 THEN /\ call' = Complete(race'.value, strategy, now' - startTime)
                      /\ pc' = "done"
                      /\ UNCHANGED <<fb, fbResult, fbAttempts>>
                 ELSE IF pc = "race" /\ race'.state = "rejected"
                   THEN FallbackLoop(0, FallbackMaxRetries, strategy, startTime)
                   ELSE UNCHANGED <<call, pc, fb, fbResult, fbAttempts>>

\* the promise of attempt c settles with s and the reactions on it run
Settle(c, s) ==
  /\ attempt' = [attempt EXCEPT ![c] = DoneAttempt(@.target, s)]
  /\ settleOrder' = Append(settleOrder, c)
  /\ IF race.state = "none"
       THEN /\ race' = race
            /\ call' = SingleAwait(s, strategy, now' - startTime)
            /\ pc' = "done"
            /\ UNCHANGED <<fb, fbResult, fbAttempts>>
       ELSE /\ race' = IF s.state = "fulfilled"
                         THEN promiseAnyResolve(race, TagProvider(s.value, c))
                         ELSE promiseAnyReject(race)
            /\ IF pc = "race" /\ race'.state = "fulfilled"
                 THEN /\ call' = Complete(race'.value, strategy, now' - startTime)
                      /\ pc' = "done"
                      /\ UNCHANGED <<fb, fbResult, fbAttempts>>
                 ELSE IF pc = "race" /\ race'.state = "rejected"
                   THEN FallbackLoop(0, FallbackMaxRetries, strategy, startTime)
                   ELSE UNCHANGED <<call, pc, fb, fbResult, fbAttempts>>

\* the Transaction object attempt c works on
Target(c) == IF attempt[c].target = "original" THEN tx ELSE clones[c][1]

SetTarget(c, t) ==
  IF attempt[c].target = "original"
    THEN /\ tx' = t
         /\ UNCHANGED clones
    ELSE /\ clones' = [clones EXCEPT ![c] = <<t>>]
         /\ UNCHANGED tx

\* getLatestBlockhash resolves or throws; on a blockhash the adapter prepares
\* and signs its transaction, serializes it (which may throw) and submits it
AdapterFetch(c) ==
  /\ attempt[c].phase = "fetch"
  /\ now' = now + 1
  /\ \E r \in {"ok", "throw", "serializeThrow"} :
       CASE r = "throw" ->
              /\ Settle(c, AdapterCatch(c, now' - startTime))
              /\ UNCHANGED <<tx, clones>>
         [] r = "serializeThrow" ->
              /\ SetTarget(c, AdapterPrepare(c, Target(c), now'))
              /\ Settle(c, AdapterCatch(c, now' - startTime))
         [] r = "ok" ->
              /\ SetTarget(c, AdapterPrepare(c, Target(c), now'))
              /\ IF c = "nozomi" /\ initializeNozomiConfig.apiKey = ""
                   THEN Settle(c, AdapterReturn(AdapterFailure(c,
                                    "Nozomi API key not configured", now' - startTime)))
                   ELSE /\ attempt' = [attempt EXCEPT ![c].phase = "send",
                                                      ![c].blockhash = now']
                        /\ UNCHANGED <<pc, call, race, settleOrder, fb, fbResult, fbAttempts>>
  /\ UNCHANGED <<env, service, confirmation, lastStrategy, calls, txAtCall, strategy, startTime, delays>>

\* the submission (Jito bundle endpoints, sendRawTransaction, Nozomi POST) ends
AdapterSend(c) ==
  /\ attempt[c].phase = "send"
  /\ now' = now + 1
  /\ \E r \in SendOutcomes(c) :
       CASE r = "throw" ->
              Settle(c, AdapterCatch(c, now' - startTime))
         [] r = "refused" ->
              Settle(c, AdapterReturn(AdapterFailure(c, RefusedError(c), now' - startTime)))
         [] r = "ok" ->
              IF c = "nozomi"
                THEN Settle(c, AdapterReturn(AdapterSuccess(c, attempt[c].blockhash,
                                                        now' - startTime)))
                ELSE /\ attempt' = [attempt EXCEPT ![c].phase = "confirm"]
                     /\ UNCHANGED <<pc, call, race, settleOrder, fb, fbResult, fbAttempts>>
  /\ UNCHANGED <<env, service, confirmation, lastStrategy, calls, tx, txAtCall, clones, strategy, startTime,
                 delays>>

\* confirmTransaction ends (Jito and BloxRoute)
AdapterConfirm(c) ==
  /\ attempt[c].phase = "confirm"
  /\ now' = now + 1
  /\ \E r \in {"ok", "err", "throw"} :
       CASE r = "throw" ->
              Settle(c, AdapterCatch(c, now' - startTime))
         [] r = "err" ->
              Settle(c, AdapterReturn(AdapterFailure(c, ConfirmError, now' - startTime)))
         [] r = "ok" ->
              Settle(c, AdapterReturn(AdapterSuccess(c, attempt[c].blockhash,
                                                     now' - startTime)))
  /\ UNCHANGED <<env, service, confirmation, lastStrategy, calls, tx, txAtCall, clones, strategy, startTime,
                 delays>>

-----------------------------------------------------------------------------
(* executeTransaction: entry, strategy selection, and the synchronous part *)
(* of executeWithStrategy up to its first await                            *)

Enter(strat) ==
  /\ pc = "idle"
  /\ strat = determineOptimalStrategy
  /\ strategy' = strat
  /\ startTime' = now
  /\ txAtCall' = tx
  /\ now' = now
  /\ calls' = calls + 1

Started(target) == [phase |-> "fetch", target |-> target, blockhash |-> 0]

\* a fault thrown before the first await of the chosen path
Thrown(message) ==
  /\ call' = CatchReturn(message, strategy', now' - startTime')
  /\ pc' = "done"

\* case FALLBACK
CallFallback ==
  /\ Enter("fallback")
  /\ FallbackLoop(0, FallbackMaxRetries, "fallback", now)
  /\ UNCHANGED <<env, service, confirmation, lastStrategy, tx, attempt, clones, race, settleOrder, delays>>

\* case JITO_ONLY / BLOXROUTE_ONLY / NOZOMI_ONLY: the adapter gets the caller's object
CallSingle(c) ==
  /\ Enter(c)
  /\ IF ~isEnabled(c)
       THEN /\ Thrown("not enabled or configured")
            /\ UNCHANGED <<attempt, clones, settleOrder>>
       ELSE IF c = "bloxroute" /\ initializeBloxRouteConfig.authHeader = ""
         THEN /\ attempt' = [attempt EXCEPT ![c] =
                   DoneAttempt("original", AdapterCatch(c, 0))]
              /\ settleOrder' = Append(settleOrder, c)
              /\ call' = SingleAwait(AdapterCatch(c, 0), strategy', now' - startTime')
              /\ pc' = "done"
              /\ UNCHANGED clones
       ELSE IF c = "nozomi" /\ ~CanClone(tx)
         THEN /\ attempt' = [attempt EXCEPT ![c] =
                   DoneAttempt("clone", AdapterCatch(c, 0))]
              /\ settleOrder' = Append(settleOrder, c)
              /\ call' = SingleAwait(AdapterCatch(c, 0), strategy', now' - startTime')
              /\ pc' = "done"
              /\ UNCHANGED clones
       ELSE /\ attempt' = [attempt EXCEPT ![c] =
                   Started(IF c = "nozomi" THEN "clone" ELSE "original")]
            /\ clones' = IF c = "nozomi"
                           THEN [clones EXCEPT ![c] = <<NozomiClone(tx)>>]
                           ELSE clones
            /\ pc' = "single"
            /\ UNCHANGED <<call, settleOrder>>
  /\ UNCHANGED <<env, service, confirmation, lastStrategy, tx, race, fb, fbResult, fbAttempts, delays>>

\* case HYBRID: executeHybrid clones the payload for every enabled channel,
\* starts every adapter, then awaits promiseAny
CallHybrid ==
  /\ Enter("hybrid")
  /\ LET enabled == {c \in Channels : isEnabled(c)}
     IN  IF enabled # {} /\ ~CanClone(tx)
           THEN /\ Thrown("serialize fault")
                /\ UNCHANGED <<attempt, clones, race>>
         ELSE IF enabled = {}
           THEN /\ Thrown("No providers are enabled for hybrid execution")
                /\ UNCHANGED <<attempt, clones, race>>
         ELSE /\ attempt' = [c \in Channels |->
                               IF c \in enabled THEN Started("clone") ELSE Idle]
              /\ clones' = [c \in Channels |->
                              IF c \notin enabled THEN << >>
                              ELSE IF c = "nozomi"
                                THEN <<NozomiClone(cloneTransaction(tx))>>
                                ELSE <<cloneTransaction(tx)>>]
              /\ race' = promiseAnyStart(Cardinality(enabled))
              /\ pc' = "race"
              /\ UNCHANGED call
  /\ UNCHANGED <<env, service, confirmation, lastStrategy, tx, settleOrder, fb, fbResult, fbAttempts, delays>>

-----------------------------------------------------------------------------

Next ==
  \/ CallFallback
  \/ CallHybrid
  \/ \E c \in Channels : CallSingle(c)
  \/ \E c \in Channels : AdapterFetch(c)
  \/ \E c \in Channels : AdapterSend(c)
  \/ \E c \in Channels : AdapterConfirm(c)
  \/ FallbackFetch
  \/ FallbackSend
  \/ FallbackConfirm
  \/ FallbackBackoffElapsed

Spec == Init /\ [][Next]_vars

\* every await of the engine is on a network call, an adapter call or a
\* timer: when each of them eventually settles, each continuation below
\* eventually runs
Settling ==
  /\ \A c \in Channels : WF_vars(AdapterFetch(c))
  /\ \A c \in Channels : WF_vars(AdapterSend(c))
  /\ \A c \in Channels : WF_vars(AdapterConfirm(c))
  /\ WF_vars(FallbackFetch)
  /\ WF_vars(FallbackSend)
  /\ WF_vars(FallbackConfirm)
  /\ WF_vars(FallbackBackoffElapsed)

\* the environments of the liveness specification: every combination of
\* channel switches, credentials and retry settings, the amounts left unset
LiveEnvironments ==
  {e \in Environments :
     /\ e.JITO_TIP_AMOUNT = ""
     /\ e.BLOXROUTE_FEE = ""
     /\ e.NOZOMI_TIP_AMOUNT = ""}

InitLive == env \in LiveEnvironments /\ Constructed

SpecLive == InitLive /\ [][Next]_vars /\ Settling

-----------------------------------------------------------------------------
(* Several calls on one engine: PumpFunTokenCreator keeps one              *)
(* TransactionExecutor and calls executeOptimal once per token. A call's   *)
(* locals (strategy, startTime, the promises, the fallback loop) start     *)
(* afresh; the configuration, the clock and the caller's Transaction       *)
(* object carry over.                                                      *)

\* the environments of the repeated-call specification: every combination
\* of channel switches and credentials, the other settings left unset
RepeatEnvironments ==
  {e \in Environments :
     /\ e.MAX_RETRY_ATTEMPTS = "2"
     /\ e.JITO_TIP_AMOUNT = ""
     /\ e.BLOXROUTE_FEE = ""
     /\ e.NOZOMI_TIP_AMOUNT = ""}

InitRepeat == env \in RepeatEnvironments /\ Constructed

\* the previous call has returned and its attempts have all settled; the
\* caller is about to call executeTransaction again with the same object
Recall ==
  /\ pc = "done"
  /\ calls < MaxCalls
  /\ \A c \in Channels : attempt[c].phase \in {"idle", "done"}
  /\ lastStrategy' = strategy
  /\ pc' = "idle"
  /\ strategy' = "auto"
  /\ call' = Pending
  /\ attempt' = [c \in Channels |-> Idle]
  /\ clones' = [c \in Channels |-> << >>]
  /\ race' = NoRace
  /\ settleOrder' = << >>
  /\ fb' = NoFallback
  /\ fbResult' = NoResult
  /\ fbAttempts' = 0
  /\ delays' = << >>
  /\ confirmation' = "none"
  /\ UNCHANGED <<env, service, tx, txAtCall, startTime, now, calls>>

NextRepeat == Next \/ Recall

SpecRepeat == InitRepeat /\ [][NextRepeat]_vars

-----------------------------------------------------------------------------
(* TransactionExecutor.healthCheck. The channels' own probes are           *)
(* JitoExecutor.healthCheck, BloxRouteExecutor.healthCheck and             *)
(* NozomiExecutor.healthCheck; `up` says, per channel, whether the network *)
(* call of that probe would come back healthy at the time of the call.     *)

\* everything a call of executeTransaction reads or writes, besides env and now
transaction ==
  <<tx, txAtCall, pc, strategy, startTime, call, attempt, clones, race,
    settleOrder, fb, fbResult, fbAttempts, delays, calls, lastStrategy,
    confirmation>>

\* what the adapter's own healthCheck() resolves to
AdapterHealthCheck(c, up) ==
  IF c = "nozomi" THEN initializeNozomiConfig.apiKey # "" /\ up ELSE up

\* results after the three `if (this.config.isXEnabled())` blocks
HealthResults ==
  [jito |-> isJitoEnabled, bloxroute |-> isBloxRouteEnabled,
   nozomi |-> isNozomiEnabled, fallback |-> FALSE]

\* a fallback probe that reports the fallback only when the RPC answered
HealthFallbackOmits(results, ok) ==
  IF ok
    THEN [results EXCEPT !.fallback = TRUE]
    ELSE [k \in (DOMAIN results) \ {"fallback"} |-> results[k]]

\* try { await getRecentBlockhash(); results.fallback = true } catch { warn }
HealthFallback(results, ok) ==
  IF ok THEN [results EXCEPT !.fallback = TRUE] ELSE results

\* healthCheck() up to its only await
HealthCheckCall ==
  /\ health.state \in {"idle", "fulfilled"}
  /\ health.calls < MaxHealthChecks
  /\ \E up \in [Channels -> BOOLEAN] :
       health' = [state |-> "probing", calls |-> health.calls + 1,
                  results |-> HealthResults, up |-> up,
                  previous |-> IF health.state = "fulfilled"
                                 THEN health.value ELSE NoResult]
  /\ UNCHANGED <<env, now, transaction, estimate, monitor, bundle, session>>

\* getRecentBlockhash resolves or rejects, and healthCheck returns results
HealthCheckRpc ==
  /\ health.state = "probing"
  /\ now' = now + 1
  /\ \E ok \in BOOLEAN :
       health' = [state |-> "fulfilled", calls |-> health.calls,
                  value |-> HealthFallback(health.results, ok), up |-> health.up,
                  previous |-> health.previous]
  /\ UNCHANGED <<env, transaction, estimate, monitor, bundle, session>>

InitHealth == env \in RepeatEnvironments /\ Constructed

NextHealth == HealthCheckCall \/ HealthCheckRpc

SpecHealth == InitHealth /\ [][NextHealth]_vars

-----------------------------------------------------------------------------
(* TransactionExecutor.estimateExecutionCost. Amounts are held in lamports *)
(* throughout (parseFloat above yields lamports), which is the code's      *)
(* amount in SOL times 1000000000.                                         *)

\* const costs = {}
NoCosts == [k \in {} |-> 0]

\* an estimate without the entry of the direct path
estimateExecutionCostChannelsOnly ==
  LET jito      == IF isJitoEnabled THEN [jito |-> 100000] ELSE NoCosts
      bloxroute == IF isBloxRouteEnabled
                     THEN [bloxroute |-> initializeBloxRouteConfig.fee] ELSE NoCosts
      nozomi    == IF isNozomiEnabled
                     THEN [nozomi |-> initializeNozomiConfig.tipAmount] ELSE NoCosts
  IN  Spread(Spread(jito, bloxroute), nozomi)

\* costs.jito = 100000; costs.bloxroute = fee * 1e9;
\* costs.nozomi = tipAmount * 1e9; costs.rpc = 5000
estimateExecutionCost ==
  LET jito      == IF isJitoEnabled THEN [jito |-> 100000] ELSE NoCosts
      bloxroute == IF isBloxRouteEnabled
                     THEN [bloxroute |-> initializeBloxRouteConfig.fee] ELSE NoCosts
      nozomi    == IF isNozomiEnabled
                     THEN [nozomi |-> initializeNozomiConfig.tipAmount] ELSE NoCosts
  IN  Spread(Spread(Spread(jito, bloxroute), nozomi), [rpc |-> 5000])

\* the async function has no await: the promise it returns is fulfilled
EstimateCost ==
  /\ estimate.state = "none"
  /\ estimate' = [state |-> "fulfilled", value |-> estimateExecutionCost]
  /\ UNCHANGED <<env, now, transaction, health, monitor, bundle, session>>

\* amounts a deployment may configure: unset, zero, twice the default tip
CostAmounts == EnvAmounts \cup {"0.0002"}

CostEnvironments ==
  [USE_JITO : EnvFlags, USE_BLOXROUTE : EnvFlags, USE_NOZOMI : EnvFlags,
   JITO_TIP_AMOUNT : CostAmounts, BLOXROUTE_FEE : CostAmounts,
   NOZOMI_TIP_AMOUNT : CostAmounts,
   BLOXROUTE_AUTH_HEADER : EnvSecrets, NOZOMI_API_KEY : EnvSecrets,
   MAX_RETRY_ATTEMPTS : {""}, TRANSACTION_TIMEOUT : EnvTimeouts]

InitCost == env \in CostEnvironments /\ Constructed

NextCost == EstimateCost

SpecCost == InitCost /\ [][NextCost]_vars

-----------------------------------------------------------------------------
(* PerformanceMonitor: operations is a Map from operation name to the      *)
(* metric being tracked (its startTime), completedOperations an array of   *)
(* finished metrics.                                                       *)

MonitorOps == {"test_operation", "token_creation"}

\* Map.prototype.set
MapSet(m, k, v) == [x \in (DOMAIN m) \cup {k} |-> IF x = k THEN v ELSE m[x]]

\* Map.prototype.delete
MapDelete(m, k) == [x \in (DOMAIN m) \ {k} |-> m[x]]

\* an assignment that keeps the duration already recorded under the name
MetricsPutIfAbsent(metrics, op) ==
  Spread([k \in {op.name} |-> op.duration], metrics)

\* if (op.duration !== undefined) metrics[op.name] = op.duration
MetricsPut(metrics, op) ==
  IF Has(op, "duration")
    THEN Spread(metrics, [k \in {op.name} |-> op.duration])
    ELSE metrics

\* completedOperations.forEach(op => { metrics[op.name] = op.duration })
RECURSIVE getMetrics(_)
getMetrics(completed) ==
  IF completed = << >>
    THEN [k \in {} |-> 0]
    ELSE MetricsPut(getMetrics(SubSeq(completed, 1, Len(completed) - 1)),
                    completed[Len(completed)])

\* startTracking(operation)
StartTracking(op) ==
  /\ monitor' = [monitor EXCEPT
                   !.operations = MapSet(@, op, now),
                   !.returned = [call |-> "startTracking", operation |-> op]]
  /\ UNCHANGED <<env, now, transaction, health, estimate, bundle, session>>

\* endTracking(operation): 0 for an operation that is not being tracked
EndTracking(op) ==
  /\ Len(monitor.completedOperations) < MaxCompleted
  /\ IF op \notin DOMAIN monitor.operations
       THEN monitor' = [monitor EXCEPT
                          !.returned = [call |-> "endTracking", operation |-> op,
                                        value |-> 0]]
       ELSE LET startedAt == monitor.operations[op]
                duration  == now - startedAt
            IN  monitor' =
                  [operations |-> MapDelete(monitor.operations, op),
                   completedOperations |->
                     Append(monitor.completedOperations,
                            [name |-> op, startTime |-> startedAt,
                             endTime |-> now, duration |-> duration]),
                   returned |-> [call |-> "endTracking", operation |-> op,
                                 value |-> duration]]
  /\ UNCHANGED <<env, now, transaction, health, estimate, bundle, session>>

\* time passes between two calls on the monitor
MonitorTick ==
  /\ now < MaxMonitorClock
  /\ now' = now + 1
  /\ UNCHANGED <<env, transaction, service>>

\* one environment with nothing enabled, for the parts that read no
\* configuration
PlainEnvironments ==
  {e \in RepeatEnvironments :
     /\ e.USE_JITO = "" /\ e.USE_BLOXROUTE = "" /\ e.USE_NOZOMI = ""
     /\ e.BLOXROUTE_AUTH_HEADER = "" /\ e.NOZOMI_API_KEY = ""}

InitMonitor == env \in PlainEnvironments /\ Constructed

NextMonitor ==
  \/ \E op \in MonitorOps : StartTracking(op)
  \/ \E op \in MonitorOps : EndTracking(op)
  \/ MonitorTick

SpecMonitor == InitMonitor /\ [][NextMonitor]_vars

-----------------------------------------------------------------------------
(* promiseAny on its own: any list of input promises, each of which is     *)
(* fulfilled or rejected at some time, in any order.  attempt[c] is the    *)
(* input promise at the index of channel c.                                *)

\* the value input promise c is fulfilled with
InputValue(c) == [success |-> c # "jito", provider |-> c]

\* promiseAny(promises): the executor registers then/catch on every input
PromiseAnyCall(inputs) ==
  /\ race.state = "none"
  /\ attempt' = [c \in Channels |->
                   IF c \in inputs THEN Started("clone") ELSE Idle]
  /\ race' = promiseAnyStart(Cardinality(inputs))
  /\ UNCHANGED <<env, now, service, tx, txAtCall, pc, strategy, startTime,
                 call, clones, settleOrder, fb, fbResult, fbAttempts, delays,
                 calls, lastStrategy, confirmation>>

\* input promise c settles with s; the reaction promiseAny put on it runs
InputSettles(c, s) ==
  /\ attempt' = [attempt EXCEPT ![c] = DoneAttempt(@.target, s)]
  /\ settleOrder' = Append(settleOrder, c)
  /\ race' = IF s.state = "fulfilled"
               THEN promiseAnyResolve(race, s.value)
               ELSE promiseAnyReject(race)
  /\ UNCHANGED <<env, now, service, tx, txAtCall, pc, strategy, startTime,
                 call, clones, fb, fbResult, fbAttempts, delays, calls,
                 lastStrategy, confirmation>>

\* a pending input promise is fulfilled
InputFulfils(c) ==
  /\ attempt[c].phase = "fetch"
  /\ InputSettles(c, AdapterReturn(InputValue(c)))

\* a pending input promise is rejected
InputRejects(c) ==
  /\ attempt[c].phase = "fetch"
  /\ InputSettles(c, [state |-> "rejected", reason |-> CaughtError(c)])

InitPromiseAny == env \in PlainEnvironments /\ Constructed

NextPromiseAny ==
  \/ \E inputs \in SUBSET Channels : PromiseAnyCall(inputs)
  \/ \E c \in Channels : InputFulfils(c)
  \/ \E c \in Channels : InputRejects(c)

SpecPromiseAny == InitPromiseAny /\ [][NextPromiseAny]_vars

-----------------------------------------------------------------------------
(* JitoExecutor.executeTransaction with its bundle submission: one POST    *)
(* per endpoint of the configured network, all awaited together.           *)

Networks == {"devnet", "mainnet-beta"}

\* ConfigManager.getJitoEndpoints(network)
getJitoEndpoints(network) ==
  IF network = "devnet"
    THEN {"devnet"}
    ELSE {"mainnet", "amsterdam", "ny", "tokyo"}

\* how one axios.post(...).catch(error => error) can settle: fulfilled with a
\* response of status 200, fulfilled with a response of another status, or
\* fulfilled with the Error the catch handed back
RequestOutcomes == {"200", "204", "error"}

\* result.status === 'fulfilled' && !(result.value instanceof Error) &&
\* result.value.status === 200
Accepted(r) == r = "200"

\* a wait that ends as soon as one endpoint has accepted
allSettledOrAccepted(requests) ==
  \/ \E e \in DOMAIN requests : Accepted(requests[e])
  \/ \A e \in DOMAIN requests : requests[e] # "pending"

\* await Promise.allSettled(requests)
allSettled(requests) == \A e \in DOMAIN requests : requests[e] # "pending"

\* submitToJitoEndpoints, after the await
submitToJitoEndpoints(requests) ==
  IF \E e \in DOMAIN requests : Accepted(requests[e])
    THEN [success |-> TRUE]
    ELSE [success |-> FALSE, error |-> RefusedError("jito")]

\* the adapter body returns or its catch block does
JitoDone(settlement) ==
  bundle' = [bundle EXCEPT !.phase = "done", !.promise = settlement]

\* executeTransaction(transaction, signers) up to `await getLatestBlockhash()`
JitoExecute(network) ==
  /\ bundle.phase = "idle"
  /\ bundle' = [phase |-> "fetch", network |-> network, startTime |-> now,
                blockhash |-> 0, requests |-> [e \in {} |-> "pending"],
                confirmation |-> "none", promise |-> [state |-> "pending"]]
  /\ UNCHANGED <<env, now, transaction, health, estimate, monitor, session>>

\* getLatestBlockhash ends; on a blockhash the adapter builds the tip
\* transaction, prepares and serializes both and posts the bundle
JitoFetch ==
  /\ bundle.phase = "fetch"
  /\ now' = now + 1
  /\ \E r \in {"ok", "throw", "serializeThrow"} :
       CASE r = "throw" ->
              /\ JitoDone(AdapterCatch("jito", now' - bundle.startTime))
              /\ UNCHANGED tx
         [] r = "serializeThrow" ->
              /\ tx' = JitoPrepare(tx, now')
              /\ JitoDone(AdapterCatch("jito", now' - bundle.startTime))
         [] r = "ok" ->
              /\ tx' = JitoPrepare(tx, now')
              /\ bundle' = [bundle EXCEPT
                              !.phase = "submit",
                              !.blockhash = now',
                              !.requests = [e \in getJitoEndpoints(bundle.network)
                                              |-> "pending"]]
  /\ UNCHANGED <<env, txAtCall, pc, strategy, startTime, call, attempt, clones,
                 race, settleOrder, fb, fbResult, fbAttempts, delays, calls,
                 lastStrategy, confirmation, health, estimate, monitor, session>>

\* one endpoint request settles; when the wait of submitToJitoEndpoints is
\* over the adapter goes on to the confirmation or returns the failure
EndpointSettles(e, r) ==
  /\ bundle.phase = "submit"
  /\ e \in DOMAIN bundle.requests
  /\ bundle.requests[e] = "pending"
  /\ now' = now + 1
  /\ LET requests == [bundle.requests EXCEPT ![e] = r]
         bundleResults == submitToJitoEndpoints(requests)
     IN  IF ~allSettled(requests)
           THEN bundle' = [bundle EXCEPT !.requests = requests]
         ELSE IF bundleResults.success
           THEN bundle' = [bundle EXCEPT !.requests = requests, !.phase = "confirm"]
         ELSE bundle' = [bundle EXCEPT
                           !.requests = requests,
                           !.phase = "done",
                           !.promise = AdapterReturn(AdapterFailure("jito",
                                         bundleResults.error, now' - bundle.startTime))]
  /\ UNCHANGED <<env, transaction, health, estimate, monitor, session>>

\* confirmTransaction of the main transaction ends
JitoConfirm ==
  /\ bundle.phase = "confirm"
  /\ now' = now + 1
  /\ \E r \in {"ok", "err", "throw"} :
       bundle' = [bundle EXCEPT
                    !.phase = "done",
                    !.confirmation = r,
                    !.promise =
                      CASE r = "throw" ->
                             AdapterCatch("jito", now' - bundle.startTime)
                        [] r = "err" ->
                             AdapterReturn(AdapterFailure("jito", ConfirmError,
                                                          now' - bundle.startTime))
                        [] r = "ok" ->
                             AdapterReturn(AdapterSuccess("jito", bundle.blockhash,
                                                          now' - bundle.startTime))]
  /\ UNCHANGED <<env, transaction, health, estimate, monitor, session>>

InitJito == env \in PlainEnvironments /\ Constructed

NextJito ==
  \/ \E network \in Networks : JitoExecute(network)
  \/ JitoFetch
  \/ \E e \in getJitoEndpoints("mainnet-beta") \cup getJitoEndpoints("devnet") :
       \E r \in RequestOutcomes : EndpointSettles(e, r)
  \/ JitoConfirm

SpecJito == InitJito /\ [][NextJito]_vars

-----------------------------------------------------------------------------
(* PumpFunTokenCreator.createToken and the session metrics it records in   *)
(* its PerformanceMonitor.  The calls are made one after another.          *)

\* the monitor after startTracking(op) at time t
startTracking(m, op, t) == [m EXCEPT !.operations = MapSet(@, op, t)]

\* the monitor after endTracking(op) at time t
endTracking(m, op, t) ==
  IF op \notin DOMAIN m.operations
    THEN m
    ELSE [m EXCEPT
            !.operations = MapDelete(@, op),
            !.completedOperations =
               Append(@, [name |-> op, startTime |-> m.operations[op],
                          endTime |-> t, duration |-> t - m.operations[op]])]

\* this.monitor.getMetrics().transaction_build || 0
transactionBuildTime(m) ==
  LET metrics == getMetrics(m.completedOperations)
  IN  IF Has(metrics, "transaction_build") THEN metrics.transaction_build ELSE 0

\* recordSessionMetrics(metrics) at time t
recordSessionMetrics(m, metrics, t) ==
  [m EXCEPT
     !.completedOperations =
        Append(@, [name |-> "session_metrics",
                   startTime |-> t - metrics.totalExecutionTime,
                   endTime |-> t,
                   duration |-> metrics.totalExecutionTime,
                   metadata |-> [success |-> metrics.success,
                                 provider |-> IF Has(metrics, "provider")
                                                THEN metrics.provider
                                                ELSE "undefined"]])]

\* the entries getSessionStatistics filters out of completedOperations
SessionOps(m) ==
  {i \in 1 .. Len(m.completedOperations) :
     m.completedOperations[i].name = "session_metrics"}

getSessionStatistics(m) ==
  LET total == Cardinality(SessionOps(m))
      successful ==
        Cardinality({i \in SessionOps(m) :
                       m.completedOperations[i].metadata.success})
  IN  [totalSessions |-> total, successfulSessions |-> successful,
       failedSessions |-> total - successful]

\* what executeOptimal can resolve to (it never rejects)
ExecutionResults ==
  {[success |-> TRUE, signature |-> Signature(p, 1), provider |-> p] :
     p \in Channels \cup {"fallback"}}
  \cup {[success |-> FALSE, error |-> FallbackCaughtError]}

\* the catch block of createToken: record the failed session and return
SessionCatch(m, errorMessage, t) ==
  LET metrics == [totalExecutionTime |-> t - session.startTime,
                  transactionBuildTime |-> transactionBuildTime(m),
                  success |-> FALSE, error |-> errorMessage]
  IN  /\ monitor' = recordSessionMetrics(m, metrics, t)
      /\ session' = [phase |-> "idle", calls |-> session.calls,
                     startTime |-> session.startTime,
                     returned |-> [success |-> FALSE, error |-> errorMessage]]

\* createToken(tokenConfig) up to its first await
CreateToken ==
  /\ session.phase = "idle"
  /\ session.calls < MaxSessions
  /\ \E valid \in BOOLEAN :
       LET tracking == startTracking(monitor, "total_execution", now)
       IN  IF valid
             THEN /\ monitor' = startTracking(tracking, "transaction_build", now)
                  /\ session' = [phase |-> "build", calls |-> session.calls + 1,
                                 startTime |-> now]
             ELSE /\ monitor' =
                       recordSessionMetrics(tracking,
                         [totalExecutionTime |-> 0,
                          transactionBuildTime |-> transactionBuildTime(tracking),
                          success |-> FALSE,
                          error |-> "Configuration validation failed"], now)
                  /\ session' = [phase |-> "idle", calls |-> session.calls + 1,
                                 startTime |-> now,
                                 returned |-> [success |-> FALSE,
                                               error |-> "Configuration validation failed"]]
  /\ UNCHANGED <<env, now, transaction, health, estimate, bundle>>

\* uploadMetadata and buildTokenCreationTransaction end: on a transaction the
\* build is timed and executeOptimal is started
SessionBuilt ==
  /\ session.phase = "build"
  /\ now' = now + 1
  /\ \E ok \in BOOLEAN :
       IF ok
         THEN /\ monitor' = startTracking(endTracking(monitor, "transaction_build", now'),
                                          "execution", now')
              /\ session' = [session EXCEPT !.phase = "execute"]
         ELSE SessionCatch(monitor, "build fault", now')
  /\ UNCHANGED <<env, transaction, health, estimate, bundle>>

\* executeOptimal resolves: the rest of the try block, and the catch block
\* when the try block throws
SessionExecuted ==
  /\ session.phase = "execute"
  /\ now' = now + 1
  /\ \E result \in ExecutionResults :
       LET ended == endTracking(endTracking(monitor, "execution", now'),
                                "total_execution", now')
           measured == [totalExecutionTime |-> now' - session.startTime,
                        transactionBuildTime |-> transactionBuildTime(ended),
                        success |-> result.success]
           metrics == IF Has(result, "provider")
                        THEN Spread(measured, [provider |-> result.provider])
                        ELSE measured
           recorded == recordSessionMetrics(ended, metrics, now')
       IN  IF result.success
             THEN /\ monitor' = recorded
                  /\ session' = [phase |-> "idle", calls |-> session.calls,
                                 startTime |-> session.startTime,
                                 returned |-> [success |-> TRUE,
                                               signature |-> result.signature]]
             ELSE SessionCatch(recorded, result.error, now')
  /\ UNCHANGED <<env, transaction, health, estimate, bundle>>

InitSession == env \in PlainEnvironments /\ Constructed

NextSession ==
  \/ CreateToken
  \/ SessionBuilt
  \/ SessionExecuted

SpecSession == InitSession /\ [][NextSession]_vars

-----------------------------------------------------------------------------
(* Properties *)

EnabledSet == {c \in Channels : isEnabled(c)}

Settled(c) == attempt[c].phase = "done"
Fulfilled(c) == Settled(c) /\ attempt[c].promise = "fulfilled"
Succeeded(c) == Fulfilled(c) /\ attempt[c].outcome.success
Failed(c) == Fulfilled(c) /\ ~attempt[c].outcome.success

Returned == call.state = "fulfilled"

\* the channel whose attempt was the first, in time, to settle with success
FirstSuccess ==
  LET i == CHOOSE i \in DOMAIN settleOrder :
             /\ Succeeded(settleOrder[i])
             /\ \A j \in 1 .. (i - 1) : ~Succeeded(settleOrder[j])
  IN  settleOrder[i]

RECURSIVE SumMs(_)
SumMs(s) == IF s = << >> THEN 0 ELSE s[1].ms + SumMs(Tail(s))

\* C1: under Hybrid, as soon as some channel attempt has reported success the
\* call has returned success with the signature and provider of the first
\* attempt, in time, that succeeded, whatever failed before it.
C1_FirstSuccessWins ==
  (strategy = "hybrid" /\ \E c \in Channels : Succeeded(c)) =>
    /\ Returned
    /\ call.value.success
    /\ call.value.provider = FirstSuccess
    /\ call.value.signature = attempt[FirstSuccess].outcome.signature
    /\ call.value.strategy = "hybrid"

\* C2: under Hybrid, once every enabled channel's attempt has reported failure
\* the Direct Fallback Path has been invoked, and what it returns is what the
\* call returns.
C2_AllFailedInvokesFallback ==
  (strategy = "hybrid" /\ EnabledSet # {} /\ \A c \in EnabledSet : Failed(c)) =>
    /\ fb.phase # "none"
    /\ (fb.phase = "done" =>
          /\ Returned
          /\ call.value.success = fbResult.success
          /\ (fbResult.success => /\ call.value.provider = "fallback"
                                  /\ call.value.retryCount = fbResult.retryCount))

\* C3: executeTransaction never rejects: whatever the strategy, the channel
\* outcomes and the faults thrown inside the chosen path, the promise it
\* returned is pending until the call is done and then fulfilled with one
\* ExecutionResult (success true or false) that never changes afterwards.
C3_NeverRejects ==
  /\ [](/\ call.state \in {"pending", "fulfilled"}
        /\ (pc = "done" <=> call.state = "fulfilled")
        /\ (call.state = "fulfilled" =>
              /\ Has(call.value, "success")
              /\ call.value.success \in BOOLEAN
              /\ (~call.value.success => Has(call.value, "error"))))
  /\ [][call.state = "fulfilled" => call' = call]_vars

\* a fault thrown inside the chosen path (cloning) ended as a returned failure
C3_Witness ==
  /\ strategy = "hybrid"
  /\ ~CanClone(txAtCall)
  /\ Returned
  /\ ~call.value.success

\* C4: the strategy is this function of the enabled-channel set: none enabled
\* gives fallback, exactly one gives the strategy naming that channel, two or
\* three give hybrid; and it is the strategy the call runs with.
C4_StrategySelection ==
  LET n == Cardinality(EnabledSet)
  IN  /\ (n = 0 => determineOptimalStrategy = "fallback")
      /\ (n = 1 => EnabledSet = {determineOptimalStrategy})
      /\ (n >= 2 => determineOptimalStrategy = "hybrid")
      /\ (pc # "idle" => strategy = determineOptimalStrategy)
      /\ (pc = "single" => strategy \in EnabledSet)
      /\ (pc = "race" => Cardinality(EnabledSet) >= 2)
      /\ (pc = "fallback" => EnabledSet = {})

C4_Witness ==
  /\ pc = "single"
  /\ strategy = "nozomi"
  /\ EnabledSet = {"nozomi"}

\* C5: the Transaction object the caller passed is never changed by the call.
C5_PayloadNeverMutated == tx = txAtCall

\* C6: under a single-channel strategy a failed attempt of that channel makes
\* the call return a failure carrying that channel's error, and the Direct
\* Fallback Path is not entered at any time during the call.
C6_SingleFailureNoFallback ==
  strategy \in Channels =>
    /\ fb.phase = "none"
    /\ fbAttempts = 0
    /\ fbResult = NoResult
    /\ (Failed(strategy) =>
          /\ Returned
          /\ ~call.value.success
          /\ call.value.error = attempt[strategy].outcome.error
          /\ call.value.strategy = strategy)

C6_Witness ==
  /\ strategy = "jito"
  /\ Failed("jito")
  /\ attempt["jito"].outcome.error = ConfirmError
  /\ Returned

\* the Direct Fallback Path ran out of attempts: every one of maxRetries failed
FallbackExhaustedAttempts ==
  /\ fb.phase = "done"
  /\ Has(fbResult, "success")
  /\ ~fbResult.success
  /\ fbAttempts = fb.maxRetries

\* C7: when the fallback failed on every one of its maxRetries attempts, the
\* failure result the caller of executeTransaction gets carries
\* retryCount = maxRetries.
C7_TerminalFailureRetryCount ==
  FallbackExhaustedAttempts =>
    /\ Returned
    /\ Has(call.value, "retryCount")
    /\ call.value.retryCount = fb.maxRetries

\* C8: when the fallback succeeds at attempt n, 1 <= n <= maxRetries, the
\* returned result reports retryCount = n - 1.
C8_SuccessRetryCount ==
  (Has(fbResult, "success") /\ fbResult.success) =>
    /\ fbAttempts >= 1
    /\ fbAttempts <= fb.maxRetries
    /\ fbResult.retryCount = fbAttempts - 1
    /\ Returned
    /\ call.value.success
    /\ call.value.retryCount = fbAttempts - 1

C8_Witness ==
  /\ Has(fbResult, "success")
  /\ fbResult.success
  /\ fbAttempts = 3
  /\ call.value.retryCount = 2

\* C9 as stated: with maxRetries = 3 and all three attempts failed, the backoff
\* delays waited sum to 1000 + 2000 + 3000 = 6000 ms and retryCount = 3.
C9_Original ==
  (FallbackExhaustedAttempts /\ fb.maxRetries = 3) =>
    /\ SumMs(delays) = 6000
    /\ fbResult.retryCount = 3

\* C9 amended: with maxRetries = 3 and all three attempts failed, the backoff
\* delays waited sum to 1000 + 2000 = 3000 ms (none follows the last attempt)
\* and the result executeFallback returns has retryCount = 3.
C9_BackoffTotal ==
  (FallbackExhaustedAttempts /\ fb.maxRetries = 3) =>
    /\ SumMs(delays) = 3000
    /\ Len(delays) = 2
    /\ fbResult.retryCount = 3

C9_Witness ==
  /\ FallbackExhaustedAttempts
  /\ fb.maxRetries = 3
  /\ SumMs(delays) = 3000

C11_SecondAttemptSucceeds ==
  (Has(fbResult, "success") /\ fbResult.success /\ fbAttempts = 2) =>
    /\ fbResult.retryCount = 1
    /\ Returned
    /\ call.value.retryCount = 1
    /\ delays = <<[before |-> 2, ms |-> 1000]>>
    /\ now - startTime >= 1000

C11_Witness ==
  /\ fb.phase = "done"
  /\ Has(fbResult, "success")
  /\ fbResult.success
  /\ fbAttempts = 2
  /\ Len(delays) = 1
  /\ call.value.retryCount = 1

\* a fallback attempt is in flight: one of its three network calls is pending
AttemptInFlight == fb.phase \in {"fetch", "send", "confirm"}

\* C12: fallback attempts are strictly sequential. While an attempt is in
\* flight every earlier attempt has resolved as a failure; during a backoff
\* every started attempt has resolved; and an attempt starts only as the
\* first one or out of a backoff whose whole delay has elapsed, so two
\* attempts are never in flight together.
C12_AttemptsSequential ==
  /\ [](/\ (AttemptInFlight => fbAttempts = fb.retries + 1)
        /\ (fb.phase \in {"backoff", "done"} => fbAttempts = fb.retries
                                                 \/ (fbAttempts = fb.retries + 1
                                                     /\ fbResult.success)))
  /\ [][(fb'.phase = "fetch" /\ fb' # fb) =>
          \/ /\ fb.phase = "none"
             /\ fbAttempts = 0
             /\ fbAttempts' = 1
          \/ /\ fb.phase = "backoff"
             /\ fbAttempts' = fbAttempts + 1
             /\ fb.delay = 1000 * fb.retries
             /\ now' = now + fb.delay
             /\ Len(delays') = Len(delays) + 1]_vars

C12_Witness ==
  /\ fb.phase = "fetch"
  /\ fbAttempts = 3
  /\ fb.retries = 2
  /\ Len(delays) = 2
  /\ now - startTime >= 3000

\* C13: once the Hybrid race has selected an outcome, the race result is the
\* outcome of exactly one channel (the first attempt to settle), the call has
\* returned that outcome, and no attempt that settles later replaces or
\* alters the race result or the result of the call.
C13_RaceResultFinal ==
  /\ [](race.state = "fulfilled" =>
          /\ settleOrder # << >>
          /\ race.value = TagProvider(attempt[settleOrder[1]].outcome, settleOrder[1])
          /\ Returned
          /\ call.value.success = race.value.success
          /\ (race.value.success =>
                /\ call.value.provider = settleOrder[1]
                /\ call.value.signature = race.value.signature)
          /\ (~race.value.success => call.value.error = race.value.error))
  /\ [][race.state = "fulfilled" => (race' = race /\ call' = call)]_vars

C13_Witness ==
  /\ race.state = "fulfilled"
  /\ Len(settleOrder) >= 2
  /\ Succeeded(settleOrder[1])
  /\ Succeeded(settleOrder[2])
  /\ call.value.provider = settleOrder[1]
  /\ call.value.signature # attempt[settleOrder[2]].outcome.signature

\* an attempt was started and has not settled
Outstanding(c) == attempt[c].phase \in {"fetch", "send", "confirm"}

C15_AdapterFaultContained ==
  /\ [](\A c \in Channels :
          Settled(c) =>
            /\ attempt[c].promise = "fulfilled"
            /\ Has(attempt[c].outcome, "success")
            /\ attempt[c].outcome.provider = c
            /\ (~attempt[c].outcome.success =>
                  /\ Has(attempt[c].outcome, "error")
                  /\ attempt[c].outcome.error # ""
                  /\ ~Has(attempt[c].outcome, "signature")))
  /\ [][\A c \in Channels : \A d \in Channels \ {c} :
          (~Settled(c) /\ attempt'[c].phase = "done"
                       /\ attempt'[c].promise = "fulfilled"
                       /\ ~attempt'[c].outcome.success) =>
            /\ attempt'[d] = attempt[d]
            /\ clones'[d] = clones[d]]_vars

C15_Witness ==
  /\ strategy = "hybrid"
  /\ Len(settleOrder) = 3
  /\ Failed(settleOrder[1])
  /\ attempt[settleOrder[1]].outcome.error = CaughtError(settleOrder[1])
  /\ Failed(settleOrder[2])
  /\ attempt[settleOrder[2]].outcome.error = RefusedError(settleOrder[2])
  /\ Succeeded(settleOrder[3])

\* every attempt the Hybrid race started has settled with success = false
AllChannelsFailed ==
  /\ strategy = "hybrid"
  /\ EnabledSet # {}
  /\ \A c \in EnabledSet : Failed(c)

\* C16: when every Hybrid attempt has failed and the call has returned a
\* failure, the Direct Fallback Path has run and failed before that, and the
\* error returned enumerates the channels' failures and the fallback's: it
\* is not just the failure string of one channel or of the fallback alone.
C16_ErrorsEnumerated ==
  (AllChannelsFailed /\ Returned /\ ~call.value.success) =>
    /\ Has(fbResult, "success")
    /\ ~fbResult.success
    /\ call.value.error \notin {attempt[c].outcome.error : c \in EnabledSet}
    /\ call.value.error # fbResult.error

\* C17: the call does not stay pending past the configured overall timeout
\* (executorConfig.timeout, from TRANSACTION_TIMEOUT): while
\* executeTransaction has not returned, the time elapsed since it was
\* entered is within the timeout.
C17_OverallTimeout ==
  (pc \notin {"idle", "done"} /\ ~executorConfig.timeout.nan) =>
    now - startTime <= executorConfig.timeout.val

\* C18: when no channel is enabled, a call selects the fallback strategy and
\* runs only the Direct Fallback Path: no adapter attempt is ever started or
\* settled, no clone is made for a channel and no race is set up.
C18_NoChannelDirectFallback ==
  (EnabledSet = {} /\ pc # "idle") =>
    /\ strategy = "fallback"
    /\ fb.phase # "none"
    /\ \A c \in Channels : attempt[c] = Idle /\ clones[c] = << >>
    /\ settleOrder = << >>
    /\ race = NoRace
    /\ (Returned /\ Has(call.value, "provider") => call.value.provider = "fallback")

C18_Witness ==
  /\ EnabledSet = {}
  /\ Returned
  /\ call.value.success
  /\ call.value.strategy = "fallback"
  /\ call.value.provider = "fallback"
  /\ \A c \in Channels : attempt[c] = Idle

\* C19: under Hybrid, every enabled channel has exactly one attempt, started
\* on a clone of its own before the call first awaits, a disabled channel
\* has none, and the race waits on as many attempts as channels are enabled.
C19_OneAttemptPerChannel ==
  (strategy = "hybrid" /\ pc # "idle") =>
    /\ \A c \in Channels :
         IF c \in EnabledSet
           THEN /\ attempt[c].phase # "idle"
                /\ attempt[c].target = "clone"
                /\ Len(clones[c]) = 1
           ELSE attempt[c] = Idle /\ clones[c] = << >>
    /\ race.state # "none"
    /\ race.n = Cardinality(EnabledSet)
    /\ tx = txAtCall

C21_FreshAnchorPerAttempt ==
  /\ [](fb.phase \in {"send", "confirm"} =>
          /\ fb.blockhash > startTime + SumMs(delays)
          /\ fb.blockhash <= now)
  /\ [][/\ ((fb'.phase = "fetch" /\ fb' # fb) => fb'.blockhash = 0)
        /\ ((fb'.phase = "send" /\ fb' # fb) =>
              /\ fb.phase = "fetch"
              /\ fb.blockhash = 0
              /\ fb'.blockhash = now'
              /\ now' > now)
        /\ ((fb'.phase = "confirm" /\ fb' # fb) =>
              /\ fb.phase = "send"
              /\ fb'.blockhash = fb.blockhash)]_vars

C21_Witness ==
  /\ fb.phase = "confirm"
  /\ fbAttempts = 3
  /\ Len(delays) = 2
  /\ fb.blockhash > startTime + 3000

\* C22: every result executeTransaction returns, success or failure, has a
\* strategy field equal to the strategy selected for the call and an
\* executionTime field equal to the time from the call's entry to its
\* return.
C22_ResultCarriesStrategyAndTime ==
  /\ [](Returned =>
          /\ Has(call.value, "success")
          /\ Has(call.value, "strategy")
          /\ call.value.strategy = strategy
          /\ Has(call.value, "executionTime")
          /\ call.value.executionTime >= 0
          /\ call.value.executionTime <= now - startTime)
  /\ [][(call.state = "pending" /\ call'.state = "fulfilled") =>
          /\ call'.value.executionTime = now' - startTime'
          /\ call'.value.strategy = strategy']_vars

C22_Witness ==
  /\ Returned
  /\ call.value.success
  /\ call.value.strategy = "fallback"
  /\ call.value.provider = "fallback"
  /\ call.value.executionTime > 3000

\* C23: the value healthCheck reports for an enabled channel is what that
\* channel adapter's own health probe returns.
C23_HealthFromAdapterProbe ==
  health.state = "fulfilled" =>
    \A c \in EnabledSet : health.value[c] = AdapterHealthCheck(c, health.up[c])

\* C24: healthCheck never rejects, and the map a healthCheck returns has the
\* key set of the map the healthCheck before it returned (the three
\* channels and the fallback), whether or not the RPC probe failed in
\* either.
C24_HealthKeySetStable ==
  /\ health.state \in {"idle", "probing", "fulfilled"}
  /\ (health.state = "fulfilled" =>
        /\ DOMAIN health.value = Channels \cup {"fallback"}
        /\ (~Has(health.previous, "none") =>
              DOMAIN health.value = DOMAIN health.previous))

C24_Witness ==
  /\ health.state = "fulfilled"
  /\ health.calls = 2
  /\ ~Has(health.previous, "none")
  /\ health.previous.fallback
  /\ ~health.value.fallback
  /\ EnabledSet = {"jito", "nozomi"}

\* C25: estimateExecutionCost returns, in one step that makes no network
\* call and never by rejecting, a map whose keys are the enabled channels
\* and the direct path's "rpc".
C25_EstimateAlwaysReturns ==
  /\ [](estimate.state \in {"none", "fulfilled"})
  /\ [](estimate.state = "fulfilled" =>
          DOMAIN estimate.value = EnabledSet \cup {"rpc"})
  /\ [][estimate' # estimate =>
          /\ estimate.state = "none"
          /\ estimate'.state = "fulfilled"
          /\ now' = now]_vars

C25_Witness ==
  /\ estimate.state = "fulfilled"
  /\ EnabledSet = {"bloxroute", "nozomi"}
  /\ DOMAIN estimate.value = {"bloxroute", "nozomi", "rpc"}

\* C26: the estimate of each enabled channel is that channel's configured
\* amount in lamports (Jito: jitoTipAmount, BloxRoute: fee, Nozomi:
\* tipAmount) and the direct path's entry is 5000 lamports.
C26_EstimateFromConfiguredAmounts ==
  estimate.state = "fulfilled" =>
    /\ estimate.value.rpc = 5000
    /\ (isBloxRouteEnabled => estimate.value.bloxroute = executorConfig.bloxRouteFee)
    /\ (isNozomiEnabled => estimate.value.nozomi = executorConfig.nozomiTipAmount)
    /\ (isJitoEnabled => estimate.value.jito = executorConfig.jitoTipAmount)

\* C27: an endTracking(op) on an operation that startTracking(op) put under
\* tracking returns the time elapsed since that startTracking, removes op
\* from the active operations, and leaves getMetrics() with an entry for op
\* whose value is the duration returned.
C27_TrackingRoundTrip ==
  [][monitor'.completedOperations # monitor.completedOperations =>
       LET op == monitor'.returned.operation
           duration == monitor'.returned.value
       IN  /\ monitor'.returned.call = "endTracking"
           /\ op \in DOMAIN monitor.operations
           /\ duration = now - monitor.operations[op]
           /\ op \notin DOMAIN monitor'.operations
           /\ op \in DOMAIN getMetrics(monitor'.completedOperations)
           /\ getMetrics(monitor'.completedOperations)[op] = duration]_vars

C27_Witness ==
  /\ Len(monitor.completedOperations) = 2
  /\ monitor.completedOperations[1].name = "test_operation"
  /\ monitor.completedOperations[2].name = "test_operation"
  /\ monitor.completedOperations[1].duration = 2
  /\ monitor.completedOperations[2].duration = 1
  /\ monitor.returned = [call |-> "endTracking", operation |-> "test_operation",
                         value |-> 1]
  /\ getMetrics(monitor.completedOperations)["test_operation"] = 1
  /\ monitor.operations = [k \in {} |-> 0]

\* the input promises of the promiseAny call, and how they stand
RaceInputs == {c \in Channels : attempt[c].phase # "idle"}
InputFulfilled(c) == attempt[c].phase = "done" /\ attempt[c].promise = "fulfilled"
InputRejected(c) == attempt[c].phase = "done" /\ attempt[c].promise = "rejected"

\* the first input promise to have been fulfilled
FirstFulfilled ==
  LET at == CHOOSE i \in 1 .. Len(settleOrder) :
              /\ InputFulfilled(settleOrder[i])
              /\ \A j \in 1 .. (i - 1) : ~InputFulfilled(settleOrder[j])
  IN  settleOrder[at]

\* C28: the promise promiseAny returns is rejected exactly when the input
\* list is empty or every input has rejected, is fulfilled exactly when some
\* input has been fulfilled and then holds the value of the first input to
\* fulfil, and once settled is never changed by the inputs that settle later.
C28_BehavesAsPromiseAny ==
  /\ [](race.state # "none" =>
          /\ race.state = "rejected" <=>
                \A c \in RaceInputs : InputRejected(c)
          /\ race.state = "fulfilled" <=>
                \E c \in RaceInputs : InputFulfilled(c)
          /\ race.state = "fulfilled" =>
                race.value = attempt[FirstFulfilled].outcome)
  /\ [][race.state \in {"fulfilled", "rejected"} =>
          /\ race'.state = race.state
          /\ race.state = "fulfilled" => race'.value = race.value
          /\ race.state = "rejected" => race'.reason = race.reason]_vars

C28_Witness ==
  /\ pc = "idle"
  /\ settleOrder = <<"jito", "nozomi", "bloxroute">>
  /\ InputRejected("jito")
  /\ InputFulfilled("nozomi")
  /\ InputFulfilled("bloxroute")
  /\ race.state = "fulfilled"
  /\ race.value = InputValue("nozomi")
  /\ race.rejectedCount = 1

\* the attempt bound the configuration asks for: MAX_RETRY_ATTEMPTS when it
\* is a number of at least 1, the default of 3 when it is absent, not a
\* number, or 0
ConfiguredBound ==
  IF env.MAX_RETRY_ATTEMPTS \in {"", "junk", "0"}
    THEN 3
    ELSE CHOOSE n \in 1 .. (MaxCfgRetries + 1) : ToString(n) = env.MAX_RETRY_ATTEMPTS

\* C29: with MAX_RETRY_ATTEMPTS absent, unparseable or 0 the Direct Fallback
\* Path is bounded by 3 attempts, and with a configured value n >= 1 by
\* exactly n: the loop never starts more attempts than the bound and gives
\* up only after exactly that many have failed.
C29_MaxRetriesDefault ==
  (fb.phase # "none" /\ env.MAX_RETRY_ATTEMPTS # "-1") =>
    /\ fb.maxRetries = ConfiguredBound
    /\ fbAttempts <= ConfiguredBound
    /\ (fb.phase = "done" /\ ~fbResult.success => fbAttempts = ConfiguredBound)

C29_Witness ==
  /\ env.MAX_RETRY_ATTEMPTS = "0"
  /\ fb.phase = "done"
  /\ ~fbResult.success
  /\ fbAttempts = 3
  /\ fb.maxRetries = MAX_RETRY_ATTEMPTS

\* what the catch block of the fallback loop does to a failed attempt: one
\* more retry counted, then a backoff of 1000 ms per retry if attempts
\* remain, else the failure result
CountedAsFailedAttempt ==
  /\ fb'.retries = fb.retries + 1
  /\ IF fb.retries + 1 < fb.maxRetries
       THEN /\ fb'.phase = "backoff"
            /\ fb'.delay = 1000 * (fb.retries + 1)
            /\ UNCHANGED <<fbResult, call, fbAttempts>>
       ELSE /\ fb'.phase = "done"
            /\ ~fbResult'.success
            /\ fbResult'.retryCount = fb.retries + 1
            /\ call'.state = "fulfilled"
            /\ ~call'.value.success

\* C30: the fallback returns success only out of a confirmation that
\* reported no error for a transaction whose send succeeded; a confirmation
\* that reports an error has the same effect as a send that failed: the
\* retry counter goes up by one and, if attempts remain, a backoff follows
\* and after it a new attempt.
C30_ConfirmationErrorIsFailure ==
  /\ []((Has(fbResult, "success") /\ fbResult.success) => confirmation = "ok")
  /\ [][/\ ((fbResult' # fbResult /\ fbResult'.success) =>
               /\ fb.phase = "confirm"
               /\ confirmation' = "ok")
        /\ ((fb.phase = "confirm" /\ fb' # fb /\ confirmation' = "err") =>
               CountedAsFailedAttempt)
        /\ ((fb.phase = "send" /\ fb' # fb /\ fb'.phase # "confirm") =>
               CountedAsFailedAttempt)
        /\ ((fb.phase = "backoff" /\ fb' # fb) =>
               /\ fb'.phase = "fetch"
               /\ fb'.retries = fb.retries
               /\ fbAttempts' = fbAttempts + 1)]_vars

C30_Witness ==
  /\ confirmation = "err"
  /\ fb.phase = "fetch"
  /\ fb.retries = 1
  /\ fbAttempts = 2
  /\ delays = <<[before |-> 2, ms |-> 1000]>>

\* C31: the Jito adapter returns success only after some endpoint answered
\* the bundle with status 200 and the confirmation of the main transaction
\* reported no error; it leaves the submission only when every endpoint
\* request has settled, and when none of them accepted it returns a failure
\* without having asked for any confirmation.
C31_JitoSuccessNeedsAcceptance ==
  /\ []((bundle.phase = "done" /\ bundle.promise.value.success) =>
          /\ \E e \in DOMAIN bundle.requests : bundle.requests[e] = "200"
          /\ bundle.confirmation = "ok")
  /\ [](bundle.phase = "confirm" =>
          /\ \A e \in DOMAIN bundle.requests : bundle.requests[e] # "pending"
          /\ \E e \in DOMAIN bundle.requests : bundle.requests[e] = "200")
  /\ []((/\ bundle.phase = "done"
         /\ DOMAIN bundle.requests # {}
         /\ \A e \in DOMAIN bundle.requests : bundle.requests[e] # "200") =>
          /\ \A e \in DOMAIN bundle.requests : bundle.requests[e] # "pending"
          /\ ~bundle.promise.value.success
          /\ bundle.confirmation = "none")
  /\ [][(bundle.phase = "submit" /\ bundle'.phase # "submit") =>
          \A e \in DOMAIN bundle'.requests : bundle'.requests[e] # "pending"]_vars

C31_Witness ==
  /\ bundle.phase = "done"
  /\ DOMAIN bundle.requests = getJitoEndpoints("mainnet-beta")
  /\ bundle.requests["mainnet"] = "error"
  /\ bundle.requests["amsterdam"] = "204"
  /\ bundle.requests["ny"] = "error"
  /\ bundle.requests["tokyo"] = "200"
  /\ bundle.confirmation = "ok"
  /\ bundle.promise.value.success
  /\ bundle.promise.value.signature = Signature("jito", bundle.blockhash)

C33_FailureResultFields ==
  (Returned /\ ~call.value.success) =>
    /\ DOMAIN call.value = {"success", "error", "strategy", "executionTime"}
    /\ call.value.strategy = strategy
    /\ call.value.error # ""

C33_Witness ==
  /\ Returned
  /\ ~call.value.success
  /\ fb.phase = "done"
  /\ Has(fbResult, "retryCount")
  /\ fbResult.retryCount = 3
  /\ fbResult.provider = "fallback"
  /\ call.value.error = fbResult.error
  /\ ~Has(call.value, "retryCount")
  /\ ~Has(call.value, "provider")

\* C34: with maxRetries >= 1 a run of the Direct Fallback Path starts
\* between 1 and maxRetries attempts and waits at most maxRetries - 1
\* backoff delays, one between every two attempts and none after the last
\* failed one; it never returns through the statement after the loop.
C34_FallbackBounded ==
  (fb.phase # "none" /\ fb.maxRetries >= 1) =>
    /\ fbAttempts >= 1
    /\ fbAttempts <= fb.maxRetries
    /\ Len(delays) <= fb.maxRetries - 1
    /\ Len(delays) = fbAttempts - 1
    /\ (fb.phase = "backoff" => fb.retries < fb.maxRetries)
    /\ (fb.phase = "done" => fbResult # FallbackExhausted(fb.retries))

C34_Witness ==
  /\ env.MAX_RETRY_ATTEMPTS = "2"
  /\ fb.phase = "done"
  /\ fb.maxRetries = 2
  /\ fbAttempts = 2
  /\ ~fbResult.success
  /\ fbResult.error = FallbackCaughtError
  /\ delays = <<[before |-> 2, ms |-> 1000]>>

\* the signature the attempt of path p reported, if it reported success
ProducedBy(p, signature) ==
  IF p = "fallback"
    THEN /\ Has(fbResult, "success")
         /\ fbResult.success
         /\ fbResult.signature = signature
    ELSE /\ Succeeded(p)
         /\ attempt[p].outcome.signature = signature

\* C35: a success result of executeTransaction carries no error, a provider
\* among jito, bloxroute, nozomi and fallback, and the signature that the
\* attempt of that very path reported; a failure result carries an error
\* that is not the empty string.
C35_ResultWellFormed ==
  Returned =>
    IF call.value.success
      THEN /\ Has(call.value, "signature")
           /\ Has(call.value, "provider")
           /\ call.value.provider \in Channels \cup {"fallback"}
           /\ call.value.signature.path = call.value.provider
           /\ ProducedBy(call.value.provider, call.value.signature)
           /\ ~Has(call.value, "error")
      ELSE /\ Has(call.value, "error")
           /\ call.value.error # ""

C35_Witness ==
  /\ strategy = "hybrid"
  /\ Returned
  /\ call.value.success
  /\ call.value.provider = "nozomi"
  /\ call.value.signature = attempt["nozomi"].outcome.signature
  /\ Succeeded("jito")
  /\ attempt["jito"].outcome.signature # call.value.signature

\* executeTransaction has been called and has not returned
InProgress == pc \in {"single", "race", "fallback"}

C37_OneSessionEntryPerCall ==
  session.phase = "idle" =>
    LET statistics == getSessionStatistics(monitor)
    IN  /\ statistics.totalSessions = session.calls
        /\ statistics.successfulSessions + statistics.failedSessions
             = statistics.totalSessions

\* the channels whose adapter the call has invoked
Invoked == {c \in Channels : attempt[c].phase # "idle"}

\* C38: once a call has chosen its strategy, the strategy is never AUTO; a
\* single-channel strategy names the one enabled channel and only that
\* channel's adapter is invoked; Hybrid is chosen only with at least two
\* channels enabled and invokes enabled channels only; and no call ends in
\* the 'not enabled or configured' or the 'No providers are enabled for
\* hybrid execution' error.
C38_StrategyAgreesWithDispatch ==
  pc # "idle" =>
    /\ strategy \in Channels \cup {"hybrid", "fallback"}
    /\ (strategy \in Channels =>
          /\ isEnabled(strategy)
          /\ EnabledSet = {strategy}
          /\ Invoked = {strategy})
    /\ (strategy = "hybrid" =>
          /\ Cardinality(EnabledSet) >= 2
          /\ Invoked \subseteq EnabledSet
          /\ (CanClone(txAtCall) => Invoked = EnabledSet))
    /\ (strategy = "fallback" => EnabledSet = {} /\ Invoked = {})
    /\ (Returned /\ ~call.value.success =>
          call.value.error \notin
            {"not enabled or configured",
             "No providers are enabled for hybrid execution"})

C38_Witness ==
  /\ strategy = "jito"
  /\ pc = "single"
  /\ env.USE_BLOXROUTE = "true"
  /\ env.USE_NOZOMI = "true"
  /\ ~isBloxRouteEnabled
  /\ ~isNozomiEnabled
  /\ attempt["jito"].phase = "send"
  /\ Invoked = {"jito"}

====
